---- MODULE Spec2Model ----
(***************************************************************************)
(* Model of devil::DeviceObserver (src/src/devil/DeviceObserver.cpp).      *)
(*                                                                         *)
(* Strings are sequences of one-character strings.  A null pointer, to a   *)
(* C string or to a udev_device, is the one-element sequence Null, which   *)
(* differs from every string over the alphabets used here, the empty       *)
(* string included.                                                        *)
(***************************************************************************)
EXTENDS Integers, Sequences, FiniteSets, TLC

VARIABLES
    properties,       \* target_device::properties, the ordered filter spec
    addCallback_,     \* TRUE iff an add-callback was supplied
    removeCallback_,  \* TRUE iff a remove-callback was supplied
    noSerialPrefix_,  \* family prefix of synthetic identities
    pc,               \* "constructed", "start" (inside start()), "idle"
    enumList,         \* devices listed by udev_enumerate_scan_devices
    enumIdx,          \* position of the foreach loop of start()
    stopped,          \* stop() has been called
    closed,           \* udevStream_ has been closed
    wait,             \* the async_read_some operation: "none", "pending", "posted"
    ec,               \* error code the posted completion carries
    channel,          \* events queued in the monitor's netlink socket
    arrivals,         \* number of events the kernel has queued so far
    failure,          \* "none", or how undefined behaviour ended the run
    calls,            \* callback invocations so far, in order
    delivered,        \* the records udev_monitor_receive_device has returned
    drained,          \* a completion was handled past the ec check after stop()
    log_,             \* mismatch diagnostics written so far
    held,             \* device records acquired and not released
    outstanding,      \* async_read_some operations whose handler has not run
    busyWaits,        \* most operations outstanding while a handler ran
    armed,            \* receiveEvent() has been called
    rdDev,            \* readId check: the device record
    rdPrefix,         \* readId check: the prefix
    rdOut             \* readId check: the outcome

vars == <<properties, addCallback_, removeCallback_, noSerialPrefix_, pc,
          enumList, enumIdx, stopped, closed, wait, ec, channel, arrivals,
          failure, calls, delivered, drained, log_, held, outstanding,
          busyWaits, armed, rdDev, rdPrefix, rdOut>>

obsVars == <<properties, addCallback_, removeCallback_, noSerialPrefix_, pc,
             enumList, enumIdx, stopped, closed, wait, ec, channel, arrivals,
             failure, calls, delivered, drained, log_, held, outstanding,
             busyWaits, armed>>

rdVars == <<rdDev, rdPrefix, rdOut>>

----------------------------------------------------------------------------
(* Bounds *)

MaxTagLen == 5      \* longest ID_PATH_TAG tried by the readId check
MaxNodeLen == 6     \* longest device node path tried by the readId check
MaxDevices == 2     \* most devices one enumeration lists
MaxEvents == 2      \* most events the kernel queues in one run
MaxFilters == 2     \* longest filter spec tried by the matcher check

----------------------------------------------------------------------------
(* Strings *)

Null == <<"NULL">>

Strs(A, n) == UNION {[1..k -> A] : k \in 0..n}

Range(s) == {s[i] : i \in 1..Len(s)}

MaxOf(S) == CHOOSE m \in S : \A x \in S : x <= m

\* std::string::npos: larger than the size of any string.
Npos == 2147483647

\* std::string::find_last_of(chars): 0-based index of the last character of p
\* that is one of the characters of chars, npos when there is none.
find_last_of(p, chars) ==
    LET hits == {i \in 1..Len(p) : p[i] \in Range(chars)}
    IN  IF hits = {} THEN Npos ELSE MaxOf(hits) - 1

\* std::string::substr(pos): the characters from 0-based index pos on.
substr(p, pos) == SubSeq(p, pos + 1, Len(p))

UsbMarker == <<"u", "s", "b", "-">>

NullText == <<"[", "n", "u", "l", "l", "]">>

----------------------------------------------------------------------------
(* Device records *)

PropNames == {"ID_BUS", "ID_USB_INTERFACE_NUM", "ID_VENDOR",
              "ID_SERIAL_SHORT", "ID_PATH_TAG"}

\* A udev_device: its properties, its device node and its action tag, each
\* Null when absent.  NullDev is the NULL udev_device pointer, for which every
\* libudev getter returns NULL.
MkDev(bus, vendor, serial, tag, node, action) ==
    [props |-> [n \in PropNames |->
                   CASE n = "ID_BUS" -> bus
                     [] n = "ID_VENDOR" -> vendor
                     [] n = "ID_SERIAL_SHORT" -> serial
                     [] n = "ID_PATH_TAG" -> tag
                     [] OTHER -> Null],
     devnode |-> node,
     action |-> action]

NullDev == MkDev(Null, Null, Null, Null, Null, Null)

udev_device_get_property_value(dev, name) == dev.props[name]

udev_device_get_devnode(dev) == dev.devnode

udev_device_get_action(dev) == dev.action

----------------------------------------------------------------------------
(* readId *)

Returned(s) == [kind |-> "ok", id |-> s]

\* std::string(nullptr): undefined behaviour.
Undefined == [kind |-> "ub", id |-> <<>>]

\* What undefined behaviour does to the run: libstdc++ throws
\* std::logic_error, other libraries dereference the null pointer.
UBOutcomes == {"exception", "crash"}

\* Lines 119-126: the suffix taken from the path tag.
pathTagSuffix(p) ==
    LET idx == find_last_of(p, UsbMarker)
    IN  IF idx < Len(p) THEN substr(p, idx + 1) ELSE p

\* Lines 128-133: the suffix taken from the device node.
stripDevRoot_mut(n) == IF Len(n) >= 5 THEN substr(n, 5) ELSE n

stripDevRoot(n) == IF Len(n) > 5 THEN substr(n, 5) ELSE n

readId_mut(dev, noSerialPrefix) ==
    LET physPath == udev_device_get_property_value(dev, "ID_PATH_TAG")
        node == udev_device_get_devnode(dev)
        open == <<"[">> \o noSerialPrefix \o <<"/">>
    IN  IF physPath # Null
        THEN Returned(open \o pathTagSuffix(physPath) \o <<"]">>)
        ELSE IF node = Null
             THEN Undefined
             ELSE Returned(open \o stripDevRoot(node) \o <<"]">>)

readId(dev, noSerialPrefix) ==
    LET serial == udev_device_get_property_value(dev, "ID_SERIAL_SHORT")
        physPath == udev_device_get_property_value(dev, "ID_PATH_TAG")
        node == udev_device_get_devnode(dev)
        open == <<"[">> \o noSerialPrefix \o <<"/">>
    IN  IF serial # Null
        THEN Returned(serial)
        ELSE IF physPath # Null
             THEN Returned(open \o pathTagSuffix(physPath) \o <<"]">>)
             ELSE IF node = Null
                  THEN Undefined
                  ELSE Returned(open \o stripDevRoot(node) \o <<"]">>)

----------------------------------------------------------------------------
(* The readId check: one record, one call of readId *)

TagAlphabet == {"u", "s", "b", "-", "0"}

NodeAlphabet == {"/", "t"}

SampleNode == <<"/", "d", "e", "v", "/", "t", "0">>

SampleTag == <<"0", "-", "u", "s", "b", "-", "0", "1">>

SampleSerial == <<"A", "7">>

TagDevs ==
    {MkDev(Null, Null, Null, t, n, Null) :
        t \in Strs(TagAlphabet, MaxTagLen), n \in {Null, SampleNode}}

SerialDevs ==
    {MkDev(Null, Null, s, t, n, Null) :
        s \in {<<>>, SampleSerial}, t \in {Null, SampleTag},
        n \in {Null, SampleNode}}

NodeDevs ==
    {MkDev(Null, Null, Null, Null, n, Null) :
        n \in {Null} \cup Strs(NodeAlphabet, MaxNodeLen)}

ReadIdInputs == TagDevs \cup SerialDevs \cup NodeDevs

NotRun == [kind |-> "none", id |-> <<>>]

\* The outcomes of evaluating readId(dev, prefix) in the running program.
readIdOutcomes(dev, prefix) ==
    LET r == readId(dev, prefix)
    IN  IF r.kind = "ub"
        THEN {[kind |-> k, id |-> <<>>] : k \in UBOutcomes}
        ELSE {r}

ObsBlank ==
    /\ properties = <<>>
    /\ addCallback_ = FALSE
    /\ removeCallback_ = FALSE
    /\ noSerialPrefix_ = <<>>
    /\ pc = "constructed"
    /\ enumList = <<>>
    /\ enumIdx = 1
    /\ stopped = FALSE
    /\ closed = FALSE
    /\ wait = "none"
    /\ ec = "none"
    /\ channel = <<>>
    /\ arrivals = 0
    /\ failure = "none"
    /\ calls = <<>>
    /\ delivered = <<>>
    /\ drained = FALSE
    /\ log_ = <<>>
    /\ held = 0
    /\ outstanding = 0
    /\ busyWaits = 0
    /\ armed = FALSE

InitReadId ==
    /\ ObsBlank
    /\ rdDev \in ReadIdInputs
    /\ rdPrefix \in {<<>>, <<"e">>}
    /\ rdOut = NotRun

RdCall ==
    /\ rdOut = NotRun
    /\ rdOut' \in readIdOutcomes(rdDev, rdPrefix)
    /\ UNCHANGED <<rdDev, rdPrefix>>
    /\ UNCHANGED obsVars

NextReadId == RdCall

SpecReadId == InitReadId /\ [][NextReadId]_vars

----------------------------------------------------------------------------
(* Claims about readId *)

rdSerial == udev_device_get_property_value(rdDev, "ID_SERIAL_SHORT")

rdTag == udev_device_get_property_value(rdDev, "ID_PATH_TAG")

rdNode == udev_device_get_devnode(rdDev)

Bracketed(prefix, suffix) == <<"[">> \o prefix \o <<"/">> \o suffix \o <<"]">>

\* The start positions of the occurrences of the substring m in p.
Occurrences(p, m) ==
    {i \in 1..(Len(p) - Len(m) + 1) : SubSeq(p, i, i + Len(m) - 1) = m}

\* The part of p that follows the last occurrence of the substring m.
AfterLast(p, m) == SubSeq(p, MaxOf(Occurrences(p, m)) + Len(m), Len(p))

\* C4: without a serial and with a path tag containing "usb-", readId
\* returns "[" prefix "/" S "]", S being what follows the last occurrence of
\* the substring "usb-" in the path tag.
C4_SuffixAfterLastMarker ==
    (/\ rdOut # NotRun
     /\ rdSerial = Null
     /\ rdTag # Null
     /\ Occurrences(rdTag, UsbMarker) # {})
    => rdOut = Returned(Bracketed(rdPrefix, AfterLast(rdTag, UsbMarker)))

\* C5: without a serial and with a path tag that does not contain "usb-",
\* readId returns "[" prefix "/" pathTag "]", the tag unmodified.
C5_WholeTagWithoutMarker ==
    (/\ rdOut # NotRun
     /\ rdSerial = Null
     /\ rdTag # Null
     /\ Occurrences(rdTag, UsbMarker) = {})
    => rdOut = Returned(Bracketed(rdPrefix, rdTag))

\* C6: with a serial, readId returns exactly the serial, without prefix or
\* brackets, whatever the path tag and the device node are, absent or not.
C6_SerialVerbatim ==
    (rdOut # NotRun /\ rdSerial # Null) => rdOut = Returned(rdSerial)

C6_Witness ==
    /\ rdOut.kind = "ok"
    /\ rdSerial = SampleSerial
    /\ rdTag = Null
    /\ rdNode = Null

----------------------------------------------------------------------------
(* The observer: configuration and inputs *)

Usb == <<"u", "s", "b">>

Acme == <<"A">>

Other == <<"O">>

Add == <<"a", "d", "d">>

Remove == <<"r", "e", "m", "o", "v", "e">>

Change == <<"c", "h", "a", "n", "g", "e">>

Filter(name, value) == [first |-> name, second |-> value]

\* The filter specs tried for target_device::properties.
FilterSpecs ==
    {<<Filter("ID_BUS", Usb), Filter("ID_VENDOR", Acme)>>,
     <<Filter("ID_VENDOR", Acme), Filter("ID_BUS", Usb)>>}

\* The devices of the subsystem: a matching device with serial and node, a
\* matching device with path tag and node, a matching device with neither
\* serial, path tag nor node, and a device that differs from the target in
\* bus and vendor.
TargetDev == MkDev(Usb, Acme, SampleSerial, Null, SampleNode, Null)

DevRecords ==
    {TargetDev,
     MkDev(Usb, Acme, Null, SampleTag, SampleNode, Null),
     MkDev(Usb, Acme, Null, Null, Null, Null),
     MkDev(Null, Other, SampleSerial, Null, SampleNode, Null)}

\* What udev_monitor_receive_device can find in the socket: the addition of
\* any device, the removal or a change of the first one, or a datagram it
\* rejects (it then returns NULL).
Events ==
    {[d EXCEPT !.action = Add] : d \in DevRecords}
    \cup {[TargetDev EXCEPT !.action = a] : a \in {Remove, Change}}
    \cup {NullDev}

\* The lists of at most n distinct elements of S: an enumeration lists each
\* device of the subsystem once.
ListsUpTo(S, n) ==
    {l \in UNION {[1..k -> S] : k \in 0..n} :
        \A i, j \in 1..Len(l) : l[i] = l[j] => i = j}

----------------------------------------------------------------------------
(* The observer: invokeIfMatch and handleDeviceEvent *)

\* Properties whose mismatch is not logged (lines 150-151).
Unlogged_mut == {"ID_BUS"}

Unlogged == {"ID_BUS", "ID_USB_INTERFACE_NUM"}

\* Line 143-145: the property, "[null]" when it is absent.
propertyOrNullText(dev, name) ==
    LET p == udev_device_get_property_value(dev, name)
    IN  IF p = Null THEN NullText ELSE p

\* The for loop of invokeIfMatch from filter i on: the index of the filter
\* at which it returns, 0 when it runs to its end.
RECURSIVE firstMismatch(_, _, _)
firstMismatch(F, dev, i) ==
    IF i > Len(F)
    THEN 0
    ELSE IF propertyOrNullText(dev, F[i].first) # F[i].second
         THEN i
         ELSE firstMismatch(F, dev, i + 1)

\* Lines 150-159: what the loop logs when it returns at filter i.
diagnostic(F, dev, i) ==
    IF F[i].first \notin Unlogged
    THEN <<[name |-> F[i].first,
            actual |-> propertyOrNullText(dev, F[i].first),
            expected |-> F[i].second]>>
    ELSE <<>>

Dropped ==
    [kind |-> "drop", cb |-> "none", at |-> 0, path |-> Null, id |-> <<>>,
     diag |-> <<>>]

\* invokeIfMatch(callback, dev): "mismatch" at a filter, a "call" of the
\* callback with (devnode, readId), or "ub" when readId is undefined.
invokeIfMatch(F, prefix, cb, dev) ==
    LET i == firstMismatch(F, dev, 1)
        r == readId(dev, prefix)
    IN  IF i # 0
        THEN [kind |-> "mismatch", cb |-> cb, at |-> i, path |-> Null,
              id |-> <<>>, diag |-> diagnostic(F, dev, i)]
        ELSE IF r.kind = "ub"
             THEN [kind |-> "ub", cb |-> cb, at |-> 0, path |-> Null,
                   id |-> <<>>, diag |-> <<>>]
             ELSE [kind |-> "call", cb |-> cb, at |-> 0,
                   path |-> udev_device_get_devnode(dev), id |-> r.id,
                   diag |-> <<>>]

\* handleDeviceEvent(dev): the callback chosen by the action, if any.
handlerFor_swap(addCb, removeCb, dev) ==
    LET action == udev_device_get_action(dev)
    IN  IF action = Null THEN "none"
        ELSE IF action = Add THEN (IF addCb THEN "add" ELSE "none")
        ELSE IF action = Remove THEN (IF addCb THEN "add" ELSE "none")
        ELSE "none"

handlerFor_else(addCb, removeCb, dev) ==
    LET action == udev_device_get_action(dev)
    IN  IF action = Null THEN "none"
        ELSE IF action = Remove THEN (IF removeCb THEN "remove" ELSE "none")
        ELSE (IF addCb THEN "add" ELSE "none")

handlerFor(addCb, removeCb, dev) ==
    LET action == udev_device_get_action(dev)
    IN  IF action = Null THEN "none"
        ELSE IF action = Add THEN (IF addCb THEN "add" ELSE "none")
        ELSE IF action = Remove THEN (IF removeCb THEN "remove" ELSE "none")
        ELSE "none"

handleDeviceEvent(F, prefix, addCb, removeCb, dev) ==
    LET handler == handlerFor(addCb, removeCb, dev)
    IN  IF handler = "none"
        THEN Dropped
        ELSE invokeIfMatch(F, prefix, handler, dev)

----------------------------------------------------------------------------
(* The observer: the stream descriptor and the monitor socket *)

\* stream_descriptor::close() leaves the descriptor closed.
close_mut(isClosed) == isClosed

close(isClosed) == TRUE

\* async_read_some(null_buffers(), handler): on an open descriptor the
\* operation is pending; on a closed one its completion is posted at once
\* with bad_file_descriptor.
async_read_some_open(isClosed) == [wait |-> "pending", ec |-> "none"]

async_read_some(isClosed) ==
    IF isClosed
    THEN [wait |-> "posted", ec |-> "bad_file_descriptor"]
    ELSE [wait |-> "pending", ec |-> "none"]

\* udev_monitor_receive_device: the next record of the socket; NULL when
\* the socket is closed or empty, or when the datagram is rejected.
udev_monitor_receive_device(chan, isClosed) ==
    IF isClosed \/ chan = <<>> THEN NullDev ELSE Head(chan)

socketAfterReceive(chan, isClosed) ==
    IF isClosed \/ chan = <<>> THEN chan ELSE Tail(chan)

\* receiveEvent(), lines 70-85: one more operation is outstanding.
receiveEvent_twice(n) == n + 2

receiveEvent(n) == n + 1

\* The record of one callback invocation: the callback and its arguments,
\* the item it was made for, whether stop() and receiveEvent() had been
\* called before it, and whether the callback itself called stop().
Invocation(r, phase, idx, afterStop, afterArm, callsStop) ==
    [cb |-> r.cb, path |-> r.path, id |-> r.id, phase |-> phase,
     idx |-> idx, afterStop |-> afterStop, afterArm |-> afterArm,
     stops |-> callsStop]

----------------------------------------------------------------------------
(* The observer: actions *)

cfgVars == <<properties, addCallback_, removeCallback_, noSerialPrefix_>>

Init ==
    /\ properties \in FilterSpecs
    /\ addCallback_ \in BOOLEAN
    /\ removeCallback_ \in BOOLEAN
    /\ noSerialPrefix_ = <<"e">>
    /\ pc = "constructed"
    /\ enumList = <<>>
    /\ enumIdx = 1
    /\ stopped = FALSE
    /\ closed = FALSE
    /\ wait = "none"
    /\ ec = "none"
    /\ channel = <<>>
    /\ arrivals = 0
    /\ failure = "none"
    /\ calls = <<>>
    /\ delivered = <<>>
    /\ drained = FALSE
    /\ log_ = <<>>
    /\ held = 0
    /\ outstanding = 0
    /\ busyWaits = 0
    /\ armed = FALSE
    /\ rdDev = NullDev
    /\ rdPrefix = <<>>
    /\ rdOut = NotRun

\* start(), lines 43-54: without add-callback it only calls receiveEvent();
\* with one it scans the subsystem and enters the foreach loop.
Start_armFirst ==
    /\ pc = "constructed"
    /\ failure = "none"
    /\ wait' = async_read_some(closed).wait
    /\ ec' = async_read_some(closed).ec
    /\ outstanding' = receiveEvent(outstanding)
    /\ armed' = TRUE
    /\ IF addCallback_
       THEN /\ \E list \in ListsUpTo(DevRecords, MaxDevices) : enumList' = list
            /\ pc' = "start"
       ELSE /\ pc' = "idle"
            /\ UNCHANGED enumList
    /\ UNCHANGED <<enumIdx, stopped, closed, channel, arrivals, failure,
                   calls, delivered, drained, log_, held, busyWaits>>
    /\ UNCHANGED cfgVars
    /\ UNCHANGED rdVars

Start ==
    /\ pc = "constructed"
    /\ failure = "none"
    /\ IF addCallback_
       THEN /\ \E list \in ListsUpTo(DevRecords, MaxDevices) : enumList' = list
            /\ pc' = "start"
            /\ UNCHANGED <<wait, ec, outstanding, armed>>
       ELSE /\ pc' = "idle"
            /\ wait' = async_read_some(closed).wait
            /\ ec' = async_read_some(closed).ec
            /\ outstanding' = receiveEvent(outstanding)
            /\ armed' = TRUE
            /\ UNCHANGED enumList
    /\ UNCHANGED <<enumIdx, stopped, closed, channel, arrivals, failure,
                   calls, delivered, drained, log_, held, busyWaits>>
    /\ UNCHANGED cfgVars
    /\ UNCHANGED rdVars

\* One iteration of the foreach loop of start(), lines 56-60.  The
\* add-callback, when invoked, may call stop().  The record is not released.
EnumStep(callsStop) ==
    /\ pc = "start"
    /\ failure = "none"
    /\ enumIdx <= Len(enumList)
    /\ LET r == invokeIfMatch(properties, noSerialPrefix_, "add",
                              enumList[enumIdx])
       IN  /\ callsStop => r.kind = "call"
           /\ log_' = log_ \o r.diag
           /\ held' = held + 1
           /\ IF r.kind = "ub"
              THEN /\ failure' \in UBOutcomes
                   /\ pc' = "idle"
                   /\ UNCHANGED <<enumIdx, calls, stopped, closed>>
              ELSE /\ enumIdx' = enumIdx + 1
                   /\ calls' = IF r.kind = "call"
                               THEN Append(calls,
                                      Invocation(r, "enum", enumIdx, stopped,
                                                 armed, callsStop))
                               ELSE calls
                   /\ stopped' = (stopped \/ callsStop)
                   /\ closed' = IF callsStop THEN close(closed) ELSE closed
                   /\ UNCHANGED <<failure, pc>>
    /\ UNCHANGED <<enumList, wait, ec, channel, arrivals, delivered, drained,
                   outstanding, busyWaits, armed>>
    /\ UNCHANGED cfgVars
    /\ UNCHANGED rdVars

\* The end of start(), lines 62-65: receiveEvent().
StartArm ==
    /\ pc = "start"
    /\ failure = "none"
    /\ enumIdx > Len(enumList)
    /\ pc' = "idle"
    /\ wait' = async_read_some(closed).wait
    /\ ec' = async_read_some(closed).ec
    /\ outstanding' = receiveEvent(outstanding)
    /\ armed' = TRUE
    /\ UNCHANGED <<enumList, enumIdx, stopped, closed, channel, arrivals,
                   failure, calls, delivered, drained, log_, held, busyWaits>>
    /\ UNCHANGED cfgVars
    /\ UNCHANGED rdVars

\* The kernel queues an event in the monitor socket, which receives from
\* construction on (line 30) until it is closed.
Arrive(e) ==
    /\ failure # "crash"
    /\ ~closed
    /\ arrivals < MaxEvents
    /\ channel' = Append(channel, e)
    /\ arrivals' = arrivals + 1
    /\ UNCHANGED <<pc, enumList, enumIdx, stopped, closed, wait, ec, failure,
                   calls, delivered, drained, log_, held, outstanding,
                   busyWaits, armed>>
    /\ UNCHANGED cfgVars
    /\ UNCHANGED rdVars

\* The reactor finds the socket readable and posts the completion.
Ready ==
    /\ failure = "none"
    /\ wait = "pending"
    /\ channel # <<>>
    /\ wait' = "posted"
    /\ ec' = "success"
    /\ UNCHANGED <<pc, enumList, enumIdx, stopped, closed, channel, arrivals,
                   failure, calls, delivered, drained, log_, held,
                   outstanding, busyWaits, armed>>
    /\ UNCHANGED cfgVars
    /\ UNCHANGED rdVars

\* The wait completes with an error that is neither cancellation nor
\* bad_file_descriptor.
ReadyError ==
    /\ failure = "none"
    /\ wait = "pending"
    /\ wait' = "posted"
    /\ ec' = "other"
    /\ UNCHANGED <<pc, enumList, enumIdx, stopped, closed, channel, arrivals,
                   failure, calls, delivered, drained, log_, held,
                   outstanding, busyWaits, armed>>
    /\ UNCHANGED cfgVars
    /\ UNCHANGED rdVars

\* stop(), line 68, called between two handlers of the io_service.  Closing
\* the descriptor completes a pending operation with operation_aborted.
Stop ==
    /\ pc = "idle"
    /\ failure # "crash"
    /\ stopped' = TRUE
    /\ closed' = close(closed)
    /\ IF wait = "pending"
       THEN wait' = "posted" /\ ec' = "operation_aborted"
       ELSE UNCHANGED <<wait, ec>>
    /\ UNCHANGED <<pc, enumList, enumIdx, channel, arrivals, failure, calls,
                   delivered, drained, log_, held, outstanding, busyWaits,
                   armed>>
    /\ UNCHANGED cfgVars
    /\ UNCHANGED rdVars

\* The completion handler of receiveEvent(), lines 73-84.  The callback,
\* when invoked, may call stop().
Handler(callsStop) ==
    /\ pc = "idle"
    /\ failure = "none"
    /\ wait = "posted"
    /\ IF ec = "bad_file_descriptor"
       THEN /\ ~callsStop
            /\ wait' = "none"
            /\ ec' = "none"
            /\ outstanding' = outstanding - 1
            /\ UNCHANGED <<stopped, closed, channel, failure, calls,
                           delivered, drained, log_, held, busyWaits>>
       ELSE LET dev == udev_monitor_receive_device(channel, closed)
                r == handleDeviceEvent(properties, noSerialPrefix_,
                                       addCallback_, removeCallback_, dev)
                nowClosed == IF callsStop THEN close(closed) ELSE closed
            IN  /\ callsStop => r.kind = "call"
                /\ channel' = socketAfterReceive(channel, closed)
                /\ delivered' = IF dev = NullDev THEN delivered
                                ELSE Append(delivered, dev)
                /\ drained' = (drained \/ stopped)
                /\ log_' = log_ \o r.diag
                /\ busyWaits' = IF outstanding - 1 > busyWaits
                                THEN outstanding - 1 ELSE busyWaits
                /\ IF r.kind = "ub"
                   THEN /\ failure' \in UBOutcomes
                        /\ wait' = "none"
                        /\ ec' = "none"
                        /\ held' = held + 1
                        /\ outstanding' = outstanding - 1
                        /\ UNCHANGED <<calls, stopped, closed>>
                   ELSE /\ calls' = IF r.kind = "call"
                                    THEN Append(calls,
                                           Invocation(r, "live",
                                                      Len(delivered) + 1,
                                                      stopped, armed,
                                                      callsStop))
                                    ELSE calls
                        /\ stopped' = (stopped \/ callsStop)
                        /\ closed' = nowClosed
                        /\ wait' = async_read_some(nowClosed).wait
                        /\ ec' = async_read_some(nowClosed).ec
                        /\ outstanding' = receiveEvent(outstanding - 1)
                        /\ UNCHANGED <<failure, held>>
    /\ UNCHANGED <<pc, enumList, enumIdx, arrivals, armed>>
    /\ UNCHANGED cfgVars
    /\ UNCHANGED rdVars

Next ==
    \/ Start
    \/ \E callsStop \in BOOLEAN : EnumStep(callsStop)
    \/ StartArm
    \/ \E e \in Events : Arrive(e)
    \/ Ready
    \/ ReadyError
    \/ Stop
    \/ \E callsStop \in BOOLEAN : Handler(callsStop)

Spec == Init /\ [][Next]_vars

----------------------------------------------------------------------------
(* Claims about the observer *)

\* Every (name, value) pair of F equals the property of dev with that name,
\* an absent property counting as "[null]".
AllPairsMatch(F, dev) ==
    \A i \in 1..Len(F) :
        LET p == udev_device_get_property_value(dev, F[i].first)
        IN  (IF p = Null THEN NullText ELSE p) = F[i].second

\* The invocations made for item idx of the enumeration or of the live loop.
CallsFor(phase, idx) ==
    {k \in 1..Len(calls) : calls[k].phase = phase /\ calls[k].idx = idx}

\* The enumeration items handed to invokeIfMatch so far.
EnumProcessed ==
    {i \in 1..Len(enumList) : i < enumIdx \/ (i = enumIdx /\ pc = "idle")}

\* The live event has a recognized action whose callback was supplied.
HasHandler(dev) ==
    \/ udev_device_get_action(dev) = Add /\ addCallback_
    \/ udev_device_get_action(dev) = Remove /\ removeCallback_

\* C1: after stop() has been called no add-callback or remove-callback
\* invocation occurs any more.
C1_NoCallAfterStop ==
    \A k \in 1..Len(calls) : ~calls[k].afterStop

\* C1, amended: after stop() has been called no callback is invoked for a
\* live event any more, events pending in the channel included; the only
\* invocations after stop() are add-callbacks of the enumeration pass during
\* which stop() was called.
C1_NoLiveCallAfterStop ==
    \A k \in 1..Len(calls) :
        calls[k].afterStop => (calls[k].phase = "enum" /\ calls[k].cb = "add")

C1_Witness ==
    /\ stopped
    /\ pc = "idle"
    /\ wait = "none"
    /\ drained
    /\ \E i \in 1..Len(channel) :
         HasHandler(channel[i]) /\ AllPairsMatch(properties, channel[i])

\* C2: with an add-callback, every device present at start() that passes
\* the matcher gets exactly one add-callback invocation from the
\* enumeration pass, and a later live "add" event for it gets one more.
C2_OncePerPhase ==
    (pc = "idle" /\ addCallback_)
    => /\ \A i \in 1..Len(enumList) :
            AllPairsMatch(properties, enumList[i])
            => /\ Cardinality(CallsFor("enum", i)) = 1
               /\ \A k \in CallsFor("enum", i) : calls[k].cb = "add"
       /\ \A j \in 1..Len(delivered) :
            (/\ udev_device_get_action(delivered[j]) = Add
             /\ AllPairsMatch(properties, delivered[j]))
            => /\ Cardinality(CallsFor("live", j)) = 1
               /\ \A k \in CallsFor("live", j) : calls[k].cb = "add"

\* C3: invokeIfMatch invokes the callback iff every pair of the filter spec
\* equals the record's property, a missing property counting as "[null]".
C3_CallIffAllPairsMatch ==
    /\ \A i \in EnumProcessed :
         (CallsFor("enum", i) # {}) <=> AllPairsMatch(properties, enumList[i])
    /\ \A j \in 1..Len(delivered) :
         HasHandler(delivered[j])
         => ((CallsFor("live", j) # {})
             <=> AllPairsMatch(properties, delivered[j]))

\* C8: identity resolution and callback delivery never reach a failure
\* state, whichever of serial, path tag and device node are absent.
C8_NeverFails == failure = "none"

\* C9: the callback invocations of the live loop are, in order, the
\* delivered events that have a recognized action with a supplied callback
\* and pass the matcher.
C9_LiveCallsInDeliveryOrder ==
    LET live == SelectSeq(calls, LAMBDA c : c.phase = "live")
        due == SelectSeq([j \in 1..Len(delivered) |-> j],
                         LAMBDA j : /\ HasHandler(delivered[j])
                                    /\ AllPairsMatch(properties, delivered[j]))
    IN  /\ Len(live) = Len(due)
        /\ \A k \in 1..Len(live) :
             /\ live[k].idx = due[k]
             /\ live[k].path = udev_device_get_devnode(delivered[due[k]])
             /\ live[k].cb = (IF udev_device_get_action(delivered[due[k]]) = Add
                              THEN "add" ELSE "remove")

\* C10: once stop() has been called, the first completion the loop handles
\* ends it: the handler receives no record and issues no new wait.
C10_EndsAtFirstCompletion == ~drained

\* C11: the enumeration pass runs only with an add-callback and invokes only
\* the add-callback; the remove-callback is invoked only for a live
\* "remove" event, the add-callback never for a live "remove" event.
C11_CallbackPerPhaseAndAction ==
    /\ (pc = "start" \/ enumList # <<>>) => addCallback_
    /\ \A k \in 1..Len(calls) :
         /\ calls[k].phase = "enum" => calls[k].cb = "add"
         /\ calls[k].cb = "remove"
            => /\ calls[k].phase = "live"
               /\ udev_device_get_action(delivered[calls[k].idx]) = Remove
         /\ (calls[k].cb = "add" /\ calls[k].phase = "live")
            => udev_device_get_action(delivered[calls[k].idx]) # Remove

C11_Witness ==
    /\ \E k \in 1..Len(calls) : calls[k].phase = "enum"
    /\ \E k \in 1..Len(calls) : calls[k].cb = "remove"
    /\ \E k \in 1..Len(calls) : calls[k].cb = "add" /\ calls[k].phase = "live"

\* C12: the live loop has at most one wait outstanding, and a new wait is
\* issued only after the event of the previous completion has been
\* processed: none is outstanding while the handler runs.
C12_SingleWait ==
    /\ outstanding <= 1
    /\ busyWaits = 0
    /\ (outstanding = 1) <=> (wait # "none")

C12_Witness ==
    /\ outstanding = 1
    /\ wait = "pending"
    /\ Len(delivered) = 2
    /\ calls # <<>>

\* C13: the enumeration of start() runs before the live loop is armed: while
\* start() enumerates no wait has been issued, every add-callback invocation
\* of the enumeration precedes the first wait, and so precedes every
\* invocation caused by a live event.
C13_EnumerationBeforeLiveLoop ==
    /\ pc = "start" => (~armed /\ wait = "none" /\ outstanding = 0)
    /\ \A k \in 1..Len(calls) :
         /\ calls[k].phase = "enum" => ~calls[k].afterArm
         /\ calls[k].phase = "live" => calls[k].afterArm
    /\ \A j, k \in 1..Len(calls) :
         (calls[j].phase = "enum" /\ calls[k].phase = "live") => j < k

C13_Witness ==
    /\ Len(calls) >= 3
    /\ calls[1].phase = "enum"
    /\ calls[2].phase = "enum"
    /\ calls[3].phase = "live"

\* C14: a completion handler that dequeues no record, or a record whose
\* action is unreadable, is neither "add" nor "remove", or has no callback
\* supplied, invokes no callback, emits no diagnostic and issues the next
\* wait.
C14_DroppedEvent ==
    [][(/\ pc = "idle"
        /\ wait = "posted"
        /\ ec # "bad_file_descriptor"
        /\ ec' # ec
        /\ ~HasHandler(udev_monitor_receive_device(channel, closed)))
       => (/\ calls' = calls
           /\ log_' = log_
           /\ failure' = "none"
           /\ wait' # "none"
           /\ outstanding' = 1
           /\ held' = held)]_vars

C14_Witness ==
    /\ Len(delivered) = 2
    /\ udev_device_get_action(delivered[1]) = Change
    /\ udev_device_get_action(delivered[2]) = Add
    /\ ~addCallback_
    /\ removeCallback_
    /\ calls = <<>>
    /\ log_ = <<>>
    /\ wait = "pending"

\* C15: channel closure is the only terminal condition of the read loop:
\* once the loop has been armed it has a wait outstanding for as long as
\* stop() has not been called.
C15_ClosureOnlyTerminal ==
    (armed /\ ~stopped) => (wait # "none" /\ outstanding = 1)

\* C16: every device record the observer acquires is released after its
\* inspection on every exit path: whenever start() has returned or a
\* completion handler has finished, no record is held.
C16_NothingHeld ==
    pc = "idle" => held = 0

-----------------------------------------------------------------------------
(* The property matcher alone: invokeIfMatch over filter specs and records *)

MatchNames == {"ID_BUS", "ID_USB_INTERFACE_NUM", "ID_VENDOR"}

MatchExpected == {Acme, NullText}

MatchActual == {Null, Acme, Other}

\* target_device::properties: every sequence of up to MaxFilters pairs.
MatchSpecs ==
    UNION {[1..n -> {Filter(name, value) :
                       name \in MatchNames, value \in MatchExpected}] :
           n \in 0..MaxFilters}

\* Device records with every choice of the three filtered properties; each
\* has a serial and a device node.
MatchDev(bus, ifnum, vendor) ==
    [MkDev(bus, vendor, SampleSerial, Null, SampleNode, Add)
        EXCEPT !.props["ID_USB_INTERFACE_NUM"] = ifnum]

MatchDevs ==
    {MatchDev(bus, ifnum, vendor) :
       bus \in MatchActual, ifnum \in MatchActual, vendor \in MatchActual}

InitMatch ==
    /\ properties \in MatchSpecs
    /\ addCallback_ = TRUE
    /\ removeCallback_ = FALSE
    /\ noSerialPrefix_ = <<"e">>
    /\ pc = "constructed"
    /\ enumList = <<>>
    /\ enumIdx = 1
    /\ stopped = FALSE
    /\ closed = FALSE
    /\ wait = "none"
    /\ ec = "none"
    /\ channel = <<>>
    /\ arrivals = 0
    /\ failure = "none"
    /\ calls = <<>>
    /\ delivered = <<>>
    /\ drained = FALSE
    /\ log_ = <<>>
    /\ held = 0
    /\ outstanding = 0
    /\ busyWaits = 0
    /\ armed = FALSE
    /\ rdDev \in MatchDevs
    /\ rdPrefix = <<"e">>
    /\ rdOut = NotRun

\* One call invokeIfMatch(addCallback_, rdDev), lines 141-165.
MatchCall ==
    /\ rdOut = NotRun
    /\ LET r == invokeIfMatch(properties, noSerialPrefix_, "add", rdDev)
       IN  /\ log_' = log_ \o r.diag
           /\ rdOut' = [kind |-> r.kind, id |-> r.id]
           /\ calls' = IF r.kind = "call"
                       THEN Append(calls, Invocation(r, "enum", 1, stopped,
                                                     armed, FALSE))
                       ELSE calls
    /\ UNCHANGED <<pc, enumList, enumIdx, stopped, closed, wait, ec, channel,
                   arrivals, failure, delivered, drained, held, outstanding,
                   busyWaits, armed, rdDev, rdPrefix>>
    /\ UNCHANGED cfgVars

NextMatch == MatchCall

SpecMatch == InitMatch /\ [][NextMatch]_vars

\* The value the matcher compares for a property: the text "[null]" when the
\* record lacks it.
ComparedValue(dev, name) ==
    IF dev.props[name] = Null THEN <<"[", "n", "u", "l", "l", "]">>
    ELSE dev.props[name]

\* The positions of the filter pairs the record does not satisfy.
Mismatches(F, dev) ==
    {i \in 1..Len(F) : ComparedValue(dev, F[i].first) # F[i].second}

\* C17: when the matcher rejects a record, a diagnostic naming the property,
\* its actual and its expected value is emitted iff the first mismatching
\* property in declared order is neither ID_BUS nor ID_USB_INTERFACE_NUM; at
\* most one diagnostic is emitted per record, and none when it matches.
C17_DiagnosticIffUnsuppressed ==
    rdOut # NotRun =>
        LET bad == Mismatches(properties, rdDev)
        IN  /\ Len(log_) <= 1
            /\ bad = {} => (log_ = <<>> /\ rdOut.kind = "call")
            /\ bad # {} =>
                 LET i == CHOOSE j \in bad : \A k \in bad : j <= k
                     name == properties[i].first
                 IN  /\ rdOut.kind = "mismatch"
                     /\ calls = <<>>
                     /\ (log_ # <<>>)
                          <=> (name # "ID_BUS"
                               /\ name # "ID_USB_INTERFACE_NUM")
                     /\ log_ # <<>> =>
                          log_[1] = [name |-> name,
                                     actual |-> ComparedValue(rdDev, name),
                                     expected |-> properties[i].second]

C17_Witness ==
    /\ rdOut.kind = "mismatch"
    /\ Len(properties) = 2
    /\ properties[1].first = "ID_USB_INTERFACE_NUM"
    /\ 1 \notin Mismatches(properties, rdDev)
    /\ Len(log_) = 1
    /\ log_[1].name = "ID_VENDOR"
    /\ log_[1].actual = Other

-----------------------------------------------------------------------------
(* Claims about stop() called from inside a callback *)

\* The invocations for live events during which the callback called stop()
\* for the first time.
StoppingLiveCalls ==
    {k \in 1..Len(calls) : /\ calls[k].phase = "live"
                           /\ calls[k].stops
                           /\ ~calls[k].afterStop}

\* C18: when stop() is called from inside the callback of a dequeued event,
\* that delivery completes, and the loop ends at its next wait, which
\* resolves as channel-closed: no further record is dequeued and no further
\* callback is invoked.
C18_StopInsideCallback ==
    \A k \in StoppingLiveCalls :
        /\ calls[k].idx = Len(delivered)
        /\ calls[k].path = udev_device_get_devnode(delivered[calls[k].idx])
        /\ k = Len(calls)
        /\ stopped /\ closed
        /\ ~drained
        /\ failure = "none"
        /\ \/ wait = "posted" /\ ec = "bad_file_descriptor" /\ outstanding = 1
           \/ wait = "none" /\ outstanding = 0

C18_Witness ==
    /\ StoppingLiveCalls # {}
    /\ wait = "none"
    /\ channel # <<>>

\* C19: the enumeration pass is not cancellable: once an add-callback of the
\* enumeration has called stop(), every enumerated device that passes the
\* matcher still gets its add-callback, and start() then issues one wait on
\* the closed channel, which resolves as channel-closed and ends the loop
\* without any live event being handled.
C19_EnumerationNotCancellable ==
    (\E k \in 1..Len(calls) : calls[k].phase = "enum" /\ calls[k].stops) =>
        /\ \A i \in EnumProcessed :
             AllPairsMatch(properties, enumList[i]) => CallsFor("enum", i) # {}
        /\ pc = "idle" =>
             /\ EnumProcessed = 1..Len(enumList)
             /\ armed
             /\ \/ wait = "posted" /\ ec = "bad_file_descriptor"
                \/ wait = "none" /\ outstanding = 0
             /\ delivered = <<>>
             /\ ~drained
             /\ \A k \in 1..Len(calls) : calls[k].phase = "enum"

====
